---- MODULE Spec2Model ----
(***************************************************************************)
(* Model of social-timer (src/src/app.rs): the elapsed-time breakdown, the *)
(* two server functions get_count / reset_count over the single persisted  *)
(* key "social_timer_count", and the HomePage client (signals last_update  *)
(* and count, the resource last_update_resource, the one-second ticker and *)
(* the reset click handler), for several browser clients sharing the store.*)
(***************************************************************************)
EXTENDS Integers, Sequences, FiniteSets, TLC

\* ------------------------------------------------------------------ bounds
\* Browser clients that have the page open.
Clients == {"a", "b"}
\* The wall clock when the first page is opened.
StartTime == 1000
\* Seconds the wall clock advances between two observations of it.
ClockStep == 90
\* How many times the wall clock advances.
MaxAdvance == 1
\* Largest coefficient of each unit in the probe durations of SpecCalc.
MaxCoef == 2
\* SpecInterval: interval handles a client creates at most.
MaxHandles == 3
\* SpecInterval: callback invocations that are counted.
MaxCalls == 3

\* ------------------------------------------------- Option / Result values
None == <<>>
Some(x) == <<x>>
Ok(v) == [ok |-> TRUE, val |-> v]
\* Err(_): the error text is not modelled.
Err == [ok |-> FALSE, val |-> 0]

\* ------------------------------------------------------ ElapsedTime (pure)
SECONDS_IN_YEAR == 31536000
SECONDS_IN_MONTH == 2592000
SECONDS_IN_DAY == 86400
SECONDS_IN_HOUR == 3600

\* Mutant of get_elapsed_time: the day count forgets the year remainder.
get_elapsed_time_days_skip_year(seconds) ==
    [years   |-> seconds \div SECONDS_IN_YEAR,
     months  |-> (seconds % SECONDS_IN_YEAR) \div SECONDS_IN_MONTH,
     days    |-> (seconds % SECONDS_IN_MONTH) \div SECONDS_IN_DAY,
     hours   |-> (((seconds % SECONDS_IN_YEAR) % SECONDS_IN_MONTH)
                    % SECONDS_IN_DAY) \div SECONDS_IN_HOUR,
     minutes |-> ((((seconds % SECONDS_IN_YEAR) % SECONDS_IN_MONTH)
                    % SECONDS_IN_DAY) % SECONDS_IN_HOUR) \div 60,
     seconds |-> ((((seconds % SECONDS_IN_YEAR) % SECONDS_IN_MONTH)
                    % SECONDS_IN_DAY) % SECONDS_IN_HOUR) % 60]

\* Mutant of get_elapsed_time: the month count is taken from the whole
\* duration instead of the remainder after the years.
get_elapsed_time_months_no_cascade(seconds) ==
    [years   |-> seconds \div SECONDS_IN_YEAR,
     months  |-> seconds \div SECONDS_IN_MONTH,
     days    |-> ((seconds % SECONDS_IN_YEAR) % SECONDS_IN_MONTH)
                    \div SECONDS_IN_DAY,
     hours   |-> (((seconds % SECONDS_IN_YEAR) % SECONDS_IN_MONTH)
                    % SECONDS_IN_DAY) \div SECONDS_IN_HOUR,
     minutes |-> ((((seconds % SECONDS_IN_YEAR) % SECONDS_IN_MONTH)
                    % SECONDS_IN_DAY) % SECONDS_IN_HOUR) \div 60,
     seconds |-> ((((seconds % SECONDS_IN_YEAR) % SECONDS_IN_MONTH)
                    % SECONDS_IN_DAY) % SECONDS_IN_HOUR) % 60]

\* Mutant of get_elapsed_time: the minutes are taken from the remainder of
\* the day instead of the remainder of the hour.
get_elapsed_time_minutes_of_day(seconds) ==
    [years   |-> seconds \div SECONDS_IN_YEAR,
     months  |-> (seconds % SECONDS_IN_YEAR) \div SECONDS_IN_MONTH,
     days    |-> ((seconds % SECONDS_IN_YEAR) % SECONDS_IN_MONTH)
                    \div SECONDS_IN_DAY,
     hours   |-> (((seconds % SECONDS_IN_YEAR) % SECONDS_IN_MONTH)
                    % SECONDS_IN_DAY) \div SECONDS_IN_HOUR,
     minutes |-> (((seconds % SECONDS_IN_YEAR) % SECONDS_IN_MONTH)
                    % SECONDS_IN_DAY) \div 60,
     seconds |-> ((((seconds % SECONDS_IN_YEAR) % SECONDS_IN_MONTH)
                    % SECONDS_IN_DAY) % SECONDS_IN_HOUR) % 60]

\* ElapsedTime::get_elapsed_time, expression by expression.
get_elapsed_time(seconds) ==
    [years   |-> seconds \div SECONDS_IN_YEAR,
     months  |-> (seconds % SECONDS_IN_YEAR) \div SECONDS_IN_MONTH,
     days    |-> ((seconds % SECONDS_IN_YEAR) % SECONDS_IN_MONTH)
                    \div SECONDS_IN_DAY,
     hours   |-> (((seconds % SECONDS_IN_YEAR) % SECONDS_IN_MONTH)
                    % SECONDS_IN_DAY) \div SECONDS_IN_HOUR,
     minutes |-> ((((seconds % SECONDS_IN_YEAR) % SECONDS_IN_MONTH)
                    % SECONDS_IN_DAY) % SECONDS_IN_HOUR) \div 60,
     seconds |-> ((((seconds % SECONDS_IN_YEAR) % SECONDS_IN_MONTH)
                    % SECONDS_IN_DAY) % SECONDS_IN_HOUR) % 60]

\* Mutant of format_timeunit: the singular is used for every value below 2.
format_timeunit_zero_singular(unit, value) ==
    CASE unit = "Years" ->
           IF value <= 1 THEN ToString(value) \o "&nbsp;Jahr"
           ELSE ToString(value) \o "&nbsp;Jahre"
      [] unit = "Months" ->
           IF value <= 1 THEN ToString(value) \o "&nbsp;Monat"
           ELSE ToString(value) \o "&nbsp;Monate"
      [] unit = "Days" ->
           IF value <= 1 THEN ToString(value) \o "&nbsp;Tag"
           ELSE ToString(value) \o "&nbsp;Tage"
      [] unit = "Hours" ->
           IF value <= 1 THEN ToString(value) \o "&nbsp;Stunde"
           ELSE ToString(value) \o "&nbsp;Stunden"
      [] unit = "Minutes" ->
           IF value <= 1 THEN ToString(value) \o "&nbsp;Minute"
           ELSE ToString(value) \o "&nbsp;Minuten"
      [] unit = "Seconds" ->
           IF value <= 1 THEN ToString(value) \o "&nbsp;Sekunde"
           ELSE ToString(value) \o "&nbsp;Sekunden"

\* TimeUnit::format_timeunit(&self, value): the twelve match arms, the
\* guarded arm of each unit first.  format!("{}&nbsp;Jahr", value) writes
\* the decimal digits of value and then the literal text.
format_timeunit(unit, value) ==
    CASE unit = "Years" ->
           IF value = 1 THEN ToString(value) \o "&nbsp;Jahr"
           ELSE ToString(value) \o "&nbsp;Jahre"
      [] unit = "Months" ->
           IF value = 1 THEN ToString(value) \o "&nbsp;Monat"
           ELSE ToString(value) \o "&nbsp;Monate"
      [] unit = "Days" ->
           IF value = 1 THEN ToString(value) \o "&nbsp;Tag"
           ELSE ToString(value) \o "&nbsp;Tage"
      [] unit = "Hours" ->
           IF value = 1 THEN ToString(value) \o "&nbsp;Stunde"
           ELSE ToString(value) \o "&nbsp;Stunden"
      [] unit = "Minutes" ->
           IF value = 1 THEN ToString(value) \o "&nbsp;Minute"
           ELSE ToString(value) \o "&nbsp;Minuten"
      [] unit = "Seconds" ->
           IF value = 1 THEN ToString(value) \o "&nbsp;Sekunde"
           ELSE ToString(value) \o "&nbsp;Sekunden"

\* ElapsedTime::fmt_output(&self): format!("{}, {}, {}, {}, {} und {}.", ..).
fmt_output(e) ==
    format_timeunit("Years", e.years) \o ", "
      \o format_timeunit("Months", e.months) \o ", "
      \o format_timeunit("Days", e.days) \o ", "
      \o format_timeunit("Hours", e.hours) \o ", "
      \o format_timeunit("Minutes", e.minutes) \o " und "
      \o format_timeunit("Seconds", e.seconds) \o "."

\* ------------------------------------------------------------------ state
VARIABLES
    now,          \* the wall clock read by current_epoch()
    store,        \* value under "social_timer_count": None or Some(epoch)
    loaded,       \* loaded[c]: HomePage has been constructed on client c
    last_update,  \* the last_update signal of each client
    count,        \* the count signal of each client
    resource,     \* last_update_resource.get(): None or Some(Result)
    fetch,        \* the get_count call the resource has in flight
    dirty,        \* last_update changed while that call is in flight
    reset,        \* the on_click task of each client
    duration,     \* SpecCalc: the argument of get_elapsed_time
    et,           \* SpecCalc: None, or Some(the ElapsedTime returned)
    html,         \* SpecCalc: None, or Some(fmt_output of that ElapsedTime)
    interval_millis, \* SpecInterval: the value of the interval signal
    effect_dirty, \* SpecInterval: the effect of use_interval is due to run
    prev_handle,  \* SpecInterval: the value the effect returned last
    intervals,    \* SpecInterval: the schedules setInterval has active
    handles_made, \* SpecInterval: handles created so far
    calls         \* SpecInterval: invocations of the callback f so far

vars == <<now, store, loaded, last_update, count, resource, fetch, dirty,
          reset, duration, et, html, interval_millis, effect_dirty,
          prev_handle, intervals, handles_made, calls>>
clientVars == <<now, store, loaded, last_update, count, resource, fetch,
                dirty, reset>>
hookVars == <<interval_millis, effect_dirty, prev_handle, intervals,
              handles_made, calls>>
calcVars == <<duration, et, html, hookVars>>

\* fn current_epoch(): the wall clock in seconds.
current_epoch == now

\* A server call that is not in flight.
IdleCall == [pc |-> "idle", ep |-> 0, rd |-> "-", ret |-> Err]

\* --------------------------------------------------------- server functions
\* Mutant of reset_count: a failed set_json still replaces the stored value.
reset_count_write_on_error(st, counter, openOk, setOk) ==
    IF ~openOk THEN [store |-> st, ret |-> Err]
    ELSE IF ~setOk THEN [store |-> Some(counter), ret |-> Err]
    ELSE [store |-> Some(counter), ret |-> Ok(counter)]

\* Mutant of reset_count: an epoch already stored is kept (first write wins).
reset_count_keep_existing(st, counter, openOk, setOk) ==
    IF ~openOk \/ ~setOk THEN [store |-> st, ret |-> Err]
    ELSE IF st # None THEN [store |-> st, ret |-> Ok(counter)]
    ELSE [store |-> Some(counter), ret |-> Ok(counter)]

\* pub async fn reset_count(counter): open the store (`?`), set_json (`?`),
\* Ok(counter).  openOk / setOk are the outcomes of the two store calls; a
\* failed set_json leaves the key as it was.
reset_count(st, counter, openOk, setOk) ==
    IF ~openOk THEN [store |-> st, ret |-> Err]
    ELSE IF ~setOk THEN [store |-> st, ret |-> Err]
    ELSE [store |-> Some(counter), ret |-> Ok(counter)]

\* Mutant of get_count_read: a read error is returned to the caller.
get_count_read_surface_error(st, ep, openOk, readOk) ==
    IF ~openOk THEN [pc |-> "done", ep |-> ep, rd |-> "-", ret |-> Err]
    ELSE IF ~readOk THEN [pc |-> "done", ep |-> ep, rd |-> "err", ret |-> Err]
    ELSE IF st # None
         THEN [pc |-> "done", ep |-> ep, rd |-> "some", ret |-> Ok(st[1])]
    ELSE [pc |-> "reset", ep |-> ep, rd |-> "none", ret |-> Err]

\* Mutant of get_count_read: the fallback is returned although a value is
\* stored.
get_count_read_prefer_fallback(st, ep, openOk, readOk) ==
    IF ~openOk THEN [pc |-> "done", ep |-> ep, rd |-> "-", ret |-> Err]
    ELSE IF ~readOk THEN [pc |-> "reset", ep |-> ep, rd |-> "err", ret |-> Err]
    ELSE IF st # None
         THEN [pc |-> "done", ep |-> ep, rd |-> "some", ret |-> Ok(ep)]
    ELSE [pc |-> "reset", ep |-> ep, rd |-> "none", ret |-> Err]

\* Mutant of get_count_read: the key is re-initialized on every call.
get_count_read_always_reset(st, ep, openOk, readOk) ==
    IF ~openOk THEN [pc |-> "done", ep |-> ep, rd |-> "-", ret |-> Err]
    ELSE IF ~readOk THEN [pc |-> "reset", ep |-> ep, rd |-> "err", ret |-> Err]
    ELSE [pc |-> "reset", ep |-> ep, rd |-> "none", ret |-> Err]

\* get_count(ep), lines 254-261: open the store (`?` returns the error),
\* get_json, and the match on `count`.  Ok(Some(c)) returns Ok(c); the arms
\* Ok(None) and Err(e) go on to reset_count(ep).  rd is the local `count`:
\* "-" before get_json, then "some", "none" or "err".
get_count_read(st, ep, openOk, readOk) ==
    IF ~openOk THEN [pc |-> "done", ep |-> ep, rd |-> "-", ret |-> Err]
    ELSE IF ~readOk THEN [pc |-> "reset", ep |-> ep, rd |-> "err", ret |-> Err]
    ELSE IF st # None
         THEN [pc |-> "done", ep |-> ep, rd |-> "some", ret |-> Ok(st[1])]
    ELSE [pc |-> "reset", ep |-> ep, rd |-> "none", ret |-> Err]

\* get_count(ep), lines 262-271: reset_count(ep).await.expect(..); Ok(ep).
\* A failed reset_count panics the handler: the caller receives an error.
get_count_reset(st, ep, openOk, setOk) ==
    LET r == reset_count(st, ep, openOk, setOk)
    IN  [store |-> r.store, ret |-> IF r.ret.ok THEN Ok(ep) ELSE Err]

\* ------------------------------------------------------------- the display
Loading == [state |-> "Loading"]
\* `seconds.get() - last_update` on u64 with seconds < last_update: a panic
\* in a build with overflow checks, a wrapped value of about 2^64 otherwise.
Overflow == [state |-> "Overflow"]
\* resource_result.unwrap() on an Err: the view closure panics.
Panicked == [state |-> "Panicked"]
Ready(e) == [state |-> "Ready", et |-> e]

\* Mutant of ElapsedTimeDisp: the operands of the subtraction are swapped.
ElapsedTimeDisp_swapped(secs, lu) ==
    IF lu >= secs THEN Ready(get_elapsed_time(lu - secs)) ELSE Overflow

\* fn ElapsedTimeDisp(seconds, last_update).
ElapsedTimeDisp(secs, lu) ==
    IF secs >= lu THEN Ready(get_elapsed_time(secs - lu)) ELSE Overflow

\* Mutant of Display: the view follows the stored epoch as soon as it is
\* written, instead of the value its own resource fetched.
Display_follows_store(c) ==
    IF resource[c] = None THEN Loading
    ELSE IF ~resource[c][1].ok THEN Panicked
    ELSE IF store = None THEN ElapsedTimeDisp(count[c], resource[c][1].val)
    ELSE ElapsedTimeDisp(count[c], store[1])

\* The closure of the HomePage view: match last_update_resource.get().
Display(c) ==
    IF resource[c] = None THEN Loading
    ELSE IF ~resource[c][1].ok THEN Panicked
    ELSE ElapsedTimeDisp(count[c], resource[c][1].val)

\* The reset button is part of the Some(..) arm of the view.
ButtonShown(c) == resource[c] # None /\ resource[c][1].ok

\* ----------------------------------------------------------------- clients
\* Resource::new(move || last_update.get(), |last| get_count(last)): the
\* source is memoized, so the fetcher reruns only when last_update takes a
\* different value; a rerun requested while a call is in flight starts when
\* that call has returned.  Effect of writing `v` to last_update of client c
\* on (fetch, dirty).
resource_refetch(c, v) ==
    IF v = last_update[c] THEN [fetch |-> fetch[c], dirty |-> dirty[c]]
    ELSE IF fetch[c].pc = "idle"
         THEN [fetch |-> [IdleCall EXCEPT !.pc = "sent", !.ep = v],
               dirty |-> FALSE]
    ELSE [fetch |-> fetch[c], dirty |-> TRUE]

\* HomePage(): both signals start at current_epoch(), the resource has no
\* value yet and its first get_count(last_update) is sent; use_interval
\* installs the ticker.
LoadPage(c) ==
    /\ ~loaded[c]
    /\ loaded' = [loaded EXCEPT ![c] = TRUE]
    /\ last_update' = [last_update EXCEPT ![c] = current_epoch]
    /\ count' = [count EXCEPT ![c] = current_epoch]
    /\ fetch' = [fetch EXCEPT ![c] =
                    [IdleCall EXCEPT !.pc = "sent", !.ep = current_epoch]]
    /\ UNCHANGED <<now, store, resource, dirty, reset, calcVars>>

\* Mutant of Tick: the callback does nothing while a server call of the
\* client is pending.
Tick_not_while_pending(c) ==
    /\ loaded[c]
    /\ fetch[c].pc = "idle" /\ reset[c].pc = "idle"
    /\ count' = [count EXCEPT ![c] = current_epoch]
    /\ UNCHANGED <<now, store, loaded, last_update, resource, fetch, dirty,
                   reset, calcVars>>

\* The use_interval callback: set_count(current_epoch()).
Tick(c) ==
    /\ loaded[c]
    /\ count' = [count EXCEPT ![c] = current_epoch]
    /\ UNCHANGED <<now, store, loaded, last_update, resource, fetch, dirty,
                   reset, calcVars>>

\* on_click: the spawned task reads current_epoch() and sends
\* reset_count(current_epoch).  One task per client at a time.
Click(c) ==
    /\ loaded[c]
    /\ ButtonShown(c)
    /\ reset[c].pc = "idle"
    /\ reset' = [reset EXCEPT ![c] =
                    [IdleCall EXCEPT !.pc = "sent", !.ep = current_epoch]]
    /\ UNCHANGED <<now, store, loaded, last_update, count, resource, fetch,
                   dirty, calcVars>>

\* The server runs reset_count(counter) for the click of client c.
ResetServe(c) ==
    /\ reset[c].pc = "sent"
    /\ \E openOk \in BOOLEAN, setOk \in BOOLEAN :
         LET r == reset_count(store, reset[c].ep, openOk, setOk)
         IN  /\ store' = r.store
             /\ reset' = [reset EXCEPT ![c].pc = "done", ![c].ret = r.ret]
    /\ UNCHANGED <<now, loaded, last_update, count, resource, fetch, dirty,
                   calcVars>>

\* Mutant of on_click_continue: the result of reset_count is not looked at.
on_click_continue_ignore_error(c) ==
    [last_update |-> reset[c].ep, count |-> reset[c].ep,
     refetch |-> resource_refetch(c, reset[c].ep)]

\* The rest of the on_click task after reset_count(..).await: unwrap()
\* ends the task on an error; otherwise set_last_update(current_epoch);
\* set_count(current_epoch), and the resource reacts to its source.
on_click_continue(c) ==
    IF reset[c].ret.ok
    THEN [last_update |-> reset[c].ep, count |-> reset[c].ep,
          refetch |-> resource_refetch(c, reset[c].ep)]
    ELSE [last_update |-> last_update[c], count |-> count[c],
          refetch |-> [fetch |-> fetch[c], dirty |-> dirty[c]]]

ResetReturn(c) ==
    /\ reset[c].pc = "done"
    /\ LET k == on_click_continue(c)
       IN  /\ last_update' = [last_update EXCEPT ![c] = k.last_update]
           /\ count' = [count EXCEPT ![c] = k.count]
           /\ fetch' = [fetch EXCEPT ![c] = k.refetch.fetch]
           /\ dirty' = [dirty EXCEPT ![c] = k.refetch.dirty]
    /\ reset' = [reset EXCEPT ![c] = IdleCall]
    /\ UNCHANGED <<now, store, loaded, resource, calcVars>>

\* The server runs get_count(ep) for client c up to the match on `count`.
FetchRead(c) ==
    /\ fetch[c].pc = "sent"
    /\ \E openOk \in BOOLEAN, readOk \in BOOLEAN :
         fetch' = [fetch EXCEPT ![c] =
                      get_count_read(store, fetch[c].ep, openOk, readOk)]
    /\ UNCHANGED <<now, store, loaded, last_update, count, resource, dirty,
                   reset, calcVars>>

\* The server runs the Ok(None) / Err(e) arm of get_count for client c.
FetchReset(c) ==
    /\ fetch[c].pc = "reset"
    /\ \E openOk \in BOOLEAN, setOk \in BOOLEAN :
         LET r == get_count_reset(store, fetch[c].ep, openOk, setOk)
         IN  /\ store' = r.store
             /\ fetch' = [fetch EXCEPT ![c].pc = "done", ![c].ret = r.ret]
    /\ UNCHANGED <<now, loaded, last_update, count, resource, dirty, reset,
                   calcVars>>

\* The call returns to the resource: the result becomes its value, and a
\* rerun that was requested meanwhile starts with the current last_update.
FetchReturn(c) ==
    /\ fetch[c].pc = "done"
    /\ resource' = [resource EXCEPT ![c] = Some(fetch[c].ret)]
    /\ fetch' = [fetch EXCEPT ![c] =
                    IF dirty[c]
                    THEN [IdleCall EXCEPT !.pc = "sent", !.ep = last_update[c]]
                    ELSE IdleCall]
    /\ dirty' = [dirty EXCEPT ![c] = FALSE]
    /\ UNCHANGED <<now, store, loaded, last_update, count, reset, calcVars>>

\* The wall clock advances.
AdvanceClock ==
    /\ now < StartTime + MaxAdvance * ClockStep
    /\ now' = now + ClockStep
    /\ UNCHANGED <<store, loaded, last_update, count, resource, fetch, dirty,
                   reset, calcVars>>

InitClients ==
    /\ now = StartTime
    /\ store = None
    /\ loaded = [c \in Clients |-> FALSE]
    /\ last_update = [c \in Clients |-> 0]
    /\ count = [c \in Clients |-> 0]
    /\ resource = [c \in Clients |-> None]
    /\ fetch = [c \in Clients |-> IdleCall]
    /\ dirty = [c \in Clients |-> FALSE]
    /\ reset = [c \in Clients |-> IdleCall]

\* The interval hook of a page whose use_interval effect has not run yet;
\* HomePage passes the constant 1000.
InitHook(millis) ==
    /\ interval_millis \in millis
    /\ effect_dirty = TRUE
    /\ prev_handle = None
    /\ intervals = {}
    /\ handles_made = 0
    /\ calls = 0

Init ==
    /\ InitClients
    /\ duration = 0
    /\ et = None
    /\ html = None
    /\ InitHook({1000})

Next ==
    \/ AdvanceClock
    \/ \E c \in Clients : LoadPage(c)
    \/ \E c \in Clients : Tick(c)
    \/ \E c \in Clients : Click(c)
    \/ \E c \in Clients : ResetServe(c)
    \/ \E c \in Clients : ResetReturn(c)
    \/ \E c \in Clients : FetchRead(c)
    \/ \E c \in Clients : FetchReset(c)
    \/ \E c \in Clients : FetchReturn(c)

Spec == Init /\ [][Next]_vars

\* ---------------------------------------------- get_elapsed_time on its own
\* Probe durations: every sum of at most MaxCoef of each unit, and the
\* second before it (the last second of the preceding unit).
Durations ==
    {d \in {y * SECONDS_IN_YEAR + m * SECONDS_IN_MONTH + dd * SECONDS_IN_DAY
              + h * SECONDS_IN_HOUR + mi * 60 + s - o :
              y \in 0..MaxCoef, m \in 0..MaxCoef, dd \in 0..MaxCoef,
              h \in 0..MaxCoef, mi \in 0..MaxCoef, s \in 0..MaxCoef,
              o \in 0..1} : d >= 0}

InitCalc ==
    /\ InitClients
    /\ duration \in Durations
    /\ et = None
    /\ html = None
    /\ InitHook({1000})

\* One call of ElapsedTime::get_elapsed_time(duration).
Calc ==
    /\ et = None
    /\ et' = Some(get_elapsed_time(duration))
    /\ UNCHANGED <<duration, html, clientVars, hookVars>>

\* The inner_html closure of ElapsedTimeDisp: et().fmt_output().
Fmt ==
    /\ et # None
    /\ html = None
    /\ html' = Some(fmt_output(et[1]))
    /\ UNCHANGED <<duration, et, clientVars, hookVars>>

NextCalc == Calc \/ Fmt

SpecCalc == InitCalc /\ [][NextCalc]_vars

\* ------------------------------------------------- use_interval on its own
\* Interval durations the caller of use_interval switches between.
IntervalChoices == {250, 500, 1000}

\* Mutant of use_interval_effect: the previous handle is not cleared.
use_interval_effect_no_clear(prev, active, millis, id, created) ==
    IF created
    THEN [intervals |-> active \cup {[id |-> id, millis |-> millis]},
          handle |-> Some(id)]
    ELSE [intervals |-> active, handle |-> None]

\* The closure given to Effect::new in use_interval: clear the handle the
\* previous run returned, then set_interval_with_handle(f, millis) and
\* return its handle.  `created` is whether setInterval succeeded; if not,
\* expect("could not create interval") panics and nothing is returned.
use_interval_effect(prev, active, millis, id, created) ==
    LET cleared == IF prev = None THEN active
                   ELSE {h \in active : h.id # prev[1]}
    IN  IF created
        THEN [intervals |-> cleared \cup {[id |-> id, millis |-> millis]},
              handle |-> Some(id)]
        ELSE [intervals |-> cleared, handle |-> None]

\* The caller writes another duration to the interval signal: the effect,
\* whose only reactive access is interval_millis.get(), is due to rerun.
ChangeInterval ==
    /\ handles_made + (IF effect_dirty THEN 1 ELSE 0) < MaxHandles
    /\ \E ms \in IntervalChoices \ {interval_millis} : interval_millis' = ms
    /\ effect_dirty' = TRUE
    /\ UNCHANGED <<prev_handle, intervals, handles_made, calls, duration, et,
                   html, clientVars>>

\* The effect runs (first after use_interval is called, then after changes).
EffectRun ==
    /\ effect_dirty
    /\ \E created \in BOOLEAN :
         LET r == use_interval_effect(prev_handle, intervals, interval_millis,
                                      handles_made + 1, created)
         IN  /\ intervals' = r.intervals
             /\ prev_handle' = r.handle
    /\ handles_made' = handles_made + 1
    /\ effect_dirty' = FALSE
    /\ UNCHANGED <<interval_millis, calls, duration, et, html, clientVars>>

\* An active schedule elapses and invokes the callback f.
IntervalFire ==
    /\ calls < MaxCalls
    /\ \E h \in intervals : calls' = calls + 1
    /\ UNCHANGED <<interval_millis, effect_dirty, prev_handle, intervals,
                   handles_made, duration, et, html, clientVars>>

InitInterval ==
    /\ InitClients
    /\ duration = 0
    /\ et = None
    /\ html = None
    /\ InitHook(IntervalChoices)

NextInterval == ChangeInterval \/ EffectRun \/ IntervalFire

SpecInterval == InitInterval /\ [][NextInterval]_vars

\* ================================================================== claims

\* The duration a breakdown stands for, with the fixed unit lengths.
Reconstruct(e) ==
    e.years * 31536000 + e.months * 2592000 + e.days * 86400
      + e.hours * 3600 + e.minutes * 60 + e.seconds

\* C1: for every duration d >= 0 the breakdown get_elapsed_time(d)
\* reconstructs d exactly: years*31536000 + months*2592000 + days*86400 +
\* hours*3600 + minutes*60 + seconds = d.
C1_Reconstructs == et # None => Reconstruct(et[1]) = duration

\* A breakdown was computed in which every one of the six units is non-zero.
C1_Witness ==
    /\ et # None
    /\ et[1].years >= 1 /\ et[1].months >= 1 /\ et[1].days >= 1
    /\ et[1].hours >= 1 /\ et[1].minutes >= 1 /\ et[1].seconds >= 1

\* The reference cascade of the specification: each unit is the floor
\* quotient of the remainder left by the unit before it.
Cascade(d) ==
    LET r1 == d % 31536000
        r2 == r1 % 2592000
        r3 == r2 % 86400
        r4 == r3 % 3600
    IN  [years |-> d \div 31536000, months |-> r1 \div 2592000,
         days |-> r2 \div 86400, hours |-> r3 \div 3600,
         minutes |-> r4 \div 60, seconds |-> r4 % 60]

\* C2: for every duration d >= 0, get_elapsed_time(d) equals the reference
\* cascade (years = d div 31536000, months = (d mod 31536000) div 2592000,
\* and so on left to right, the seconds being the final remainder).
C2_EqualsCascade == et # None => et[1] = Cascade(duration)

\* A breakdown was computed for a duration of more than a year that ends
\* one second before a full minute (every remainder of the cascade is used).
C2_Witness ==
    /\ et # None
    /\ et[1].years >= 1 /\ et[1].months >= 1
    /\ et[1].minutes >= 1 /\ et[1].seconds = 59

\* ---- steps of the server functions, as seen in the record of the call
\* get_count of client c passes the match on `count` in this step.
ReadStep(c) == fetch[c].pc = "sent" /\ fetch'[c].pc # "sent"
\* get_count of client c finishes its Ok(None) / Err(e) arm in this step.
InitStep(c) == fetch[c].pc = "reset" /\ fetch'[c].pc = "done"
\* reset_count for the click of client c runs in this step.
WriteStep(c) == reset[c].pc = "sent" /\ reset'[c].pc = "done"

\* C3 as stated: get_count(F) on an empty store returns F and leaves the
\* store holding F, and every get_count(F') that returns while the store
\* holds a value v (and did not find the key empty) returns v, not F', and
\* leaves the store unchanged.
C3_Original ==
    [][\A c \in Clients :
         /\ (InitStep(c) /\ fetch[c].rd = "none" /\ fetch'[c].ret.ok) =>
               /\ fetch'[c].ret = Ok(fetch[c].ep)
               /\ store' = Some(fetch[c].ep)
         /\ ((ReadStep(c) \/ InitStep(c)) /\ fetch'[c].pc = "done"
               /\ fetch'[c].ret.ok /\ fetch'[c].rd # "none"
               /\ store # None) =>
               /\ fetch'[c].ret = Ok(store[1])
               /\ store' = store]_vars

\* C3 (amended): initialization is idempotent as far as the store answers.
\* A get_count(F) that reads an empty key and whose write succeeds returns F
\* and leaves the store holding F; a get_count(F') whose read succeeds while
\* the store holds v returns v, not F', and leaves the store unchanged.  The
\* only other outcomes of a get_count made while the store holds v are an
\* error (the store does not open) and a failed read, which overwrites v
\* with F'; the empty arm is never taken while a value is stored.
C3_IdempotentInit ==
    [][\A c \in Clients :
         /\ (ReadStep(c) /\ store # None) =>
               /\ store' = store
               /\ fetch'[c].rd # "none"
               /\ fetch'[c].rd = "some" =>
                     fetch'[c].pc = "done" /\ fetch'[c].ret = Ok(store[1])
               /\ fetch'[c].rd = "err" => fetch'[c].pc = "reset"
               /\ fetch'[c].rd = "-" =>
                     fetch'[c].pc = "done" /\ ~fetch'[c].ret.ok
         /\ (ReadStep(c) /\ store = None) =>
               /\ store' = store
               /\ fetch'[c].rd # "some"
               /\ fetch'[c].rd = "none" => fetch'[c].pc = "reset"
         /\ InitStep(c) =>
               IF fetch'[c].ret.ok
               THEN fetch'[c].ret = Ok(fetch[c].ep)
                      /\ store' = Some(fetch[c].ep)
               ELSE store' = store]_vars

\* A get_count with a fallback other than the stored epoch has returned the
\* stored epoch.
C3_Witness ==
    \E c \in Clients :
        /\ fetch[c].pc = "done" /\ fetch[c].rd = "some"
        /\ store = Some(fetch[c].ret.val)
        /\ fetch[c].ret.val # fetch[c].ep

C5_ResetCount ==
    [][\A c \in Clients :
         WriteStep(c) =>
            IF reset'[c].ret.ok
            THEN reset'[c].ret = Ok(reset[c].ep) /\ store' = Some(reset[c].ep)
            ELSE store' = store]_vars

\* A reset_count with an epoch later than the first stored one has
\* succeeded, and the store holds its epoch.
C5_Witness ==
    \E c \in Clients :
        /\ reset[c].pc = "done" /\ reset[c].ret = Ok(reset[c].ep)
        /\ store = Some(reset[c].ep)
        /\ reset[c].ep > StartTime

\* The on_click task of client c resumes after a successful reset_count.
ResetDone(c) ==
    reset[c].pc = "done" /\ reset[c].ret.ok /\ reset'[c].pc = "idle"
\* The on_click task of client c resumes after a failed reset_count.
ResetFailed(c) ==
    reset[c].pc = "done" /\ ~reset[c].ret.ok /\ reset'[c].pc = "idle"

\* C6: when the on_click task of a client resumes after a successful
\* reset_count(E), the store holds E, the client's reference epoch is E and
\* its display shows an elapsed duration of 0.
C6_ResetShowsZero ==
    [][\A c \in Clients :
         ResetDone(c) =>
            /\ store' = Some(reset[c].ep)
            /\ last_update'[c] = reset[c].ep
            /\ Display(c)' = Ready(get_elapsed_time(0))]_vars

\* C7: last_update (the LastUpdateMarker) of an open page changes only when
\* its on_click task resumes after a successful reset_count(E), and then
\* last_update and count both become E; when reset_count has failed, the
\* marker, the count, the resource and so the display are left as they were
\* and no fetch is started.
C7_NoOptimisticUpdate ==
    [][\A c \in Clients :
         /\ (loaded[c] /\ last_update'[c] # last_update[c]) =>
               /\ ResetDone(c)
               /\ last_update'[c] = reset[c].ep
               /\ count'[c] = reset[c].ep
         /\ ResetFailed(c) =>
               /\ last_update'[c] = last_update[c]
               /\ count'[c] = count[c]
               /\ resource'[c] = resource[c]
               /\ fetch'[c] = fetch[c] /\ dirty'[c] = dirty[c]
               /\ Display(c)' = Display(c)]_vars

\* A reset_count has failed for a click whose epoch differs from the
\* client's marker, and the on_click task is about to resume.
C7_Witness ==
    \E c \in Clients :
        /\ reset[c].pc = "done" /\ ~reset[c].ret.ok
        /\ reset[c].ep # last_update[c]
        /\ Display(c).state = "Ready"

\* C8: while the get_count call of the resource is in flight, the display
\* is Loading.
C8_LoadingWhileFetching ==
    \A c \in Clients : fetch[c].pc # "idle" => Display(c) = Loading

\* C9: whenever the resource of a client holds Ok(R), the display is the
\* breakdown of the non-negative duration count - R.
C9_DisplayFromLatestFetch ==
    \A c \in Clients :
        ButtonShown(c) =>
            /\ count[c] >= resource[c][1].val
            /\ Display(c) =
                  Ready(get_elapsed_time(count[c] - resource[c][1].val))

\* C10: last write wins.  Every store write that completes (a reset_count
\* of a click, or the re-initialization inside a get_count) leaves the
\* store holding exactly its argument, whatever was stored and whoever
\* else is writing, and the store changes in no other step.
C10_LastWriteWins ==
    [][/\ \A c \in Clients :
            /\ (WriteStep(c) /\ reset'[c].ret.ok) =>
                  store' = Some(reset[c].ep)
            /\ (InitStep(c) /\ fetch'[c].ret.ok) =>
                  store' = Some(fetch[c].ep)
       /\ store' # store =>
            \E c \in Clients :
                \/ WriteStep(c) /\ reset'[c].ret.ok
                \/ InitStep(c) /\ fetch'[c].ret.ok]_vars

\* Two clients reset concurrently with different epochs: both writes have
\* completed, neither task has resumed, and the store holds the epoch of
\* one of them.
C10_Witness ==
    \E c \in Clients, d \in Clients :
        /\ reset[c].pc = "done" /\ reset[c].ret.ok
        /\ reset[d].pc = "done" /\ reset[d].ret.ok
        /\ reset[c].ep < reset[d].ep
        /\ store = Some(reset[c].ep)

\* The words of the six units, in the order of the rendered sentence.
UnitOrder == <<"Years", "Months", "Days", "Hours", "Minutes", "Seconds">>
Singular == <<"Jahr", "Monat", "Tag", "Stunde", "Minute", "Sekunde">>
Plural == <<"Jahre", "Monate", "Tage", "Stunden", "Minuten", "Sekunden">>
FieldsOf(e) == <<e.years, e.months, e.days, e.hours, e.minutes, e.seconds>>
\* What unit i must render for value v: the singular exactly for v = 1.
Rendered(i, v) ==
    ToString(v) \o "&nbsp;" \o (IF v = 1 THEN Singular[i] ELSE Plural[i])

\* C11: format_timeunit renders the singular word of a unit exactly when
\* its value is 1 and the plural word for every other value, 0 included;
\* fmt_output renders all six units in the order years, months, days, hours,
\* minutes, seconds, zero values included, and the breakdown of 0 is
\* rendered with six zeros and six plural words.
C11_Formatting ==
    (et # None /\ html # None) =>
        LET f == FieldsOf(et[1])
        IN  /\ \A i \in 1..6 :
                 format_timeunit(UnitOrder[i], f[i]) = Rendered(i, f[i])
            /\ html[1] = Rendered(1, f[1]) \o ", " \o Rendered(2, f[2])
                 \o ", " \o Rendered(3, f[3]) \o ", " \o Rendered(4, f[4])
                 \o ", " \o Rendered(5, f[5]) \o " und "
                 \o Rendered(6, f[6]) \o "."
            /\ duration = 0 =>
                 html[1] = "0&nbsp;Jahre, 0&nbsp;Monate, 0&nbsp;Tage, "
                   \o "0&nbsp;Stunden, 0&nbsp;Minuten und 0&nbsp;Sekunden."

\* A breakdown that mixes a zero, a one and a larger value was rendered.
C11_Witness ==
    /\ et # None /\ html # None
    /\ et[1].years = 1 /\ et[1].months = 0 /\ et[1].days = 2
    /\ et[1].seconds = 1

\* The state of the display state machine of client c: Loading until the
\* resource has a value, then Ready with that value.
MachineState(c) ==
    IF resource[c] = None THEN Loading
    ELSE [state |-> "Ready", reference |-> resource[c][1]]

\* C12: the display state machine only moves from Loading to Ready and from
\* Ready back to Loading, the latter only in a step that changes the
\* client's last_update (stated for the steps after which the view renders,
\* leaving aside a view that panics on an Err result).
C12_DisplayStateMachine ==
    [][\A c \in Clients :
         (MachineState(c)' # MachineState(c)
            /\ (resource'[c] = None \/ resource'[c][1].ok)) =>
            \/ MachineState(c) = Loading
            \/ /\ MachineState(c)' = Loading
               /\ last_update'[c] # last_update[c]]_vars

\* The get_count call in flight for client c is a refetch: the resource
\* already has a value, so it follows a reset of that client.
Refetching(c) == resource[c] # None /\ fetch[c].pc # "idle"

\* C13 as stated: the get_count refetch that follows a reset performs no
\* store write (it never enters the re-initializing arm).
C13_Original ==
    \A c \in Clients : Refetching(c) => fetch[c].pc # "reset"

\* C13 (amended): a reset action whose reset_count succeeds writes the
\* store exactly once, in reset_count: no other step of the on_click task
\* changes the store.  The refetch that follows never finds the key
\* missing; it writes only when its own read of the key fails, and then it
\* writes its fallback, the epoch of the reset.
C13_OneWritePerReset ==
    [][\A c \in Clients :
         /\ (reset'[c] # reset[c] /\ store' # store) =>
               WriteStep(c) /\ reset'[c].ret.ok
         /\ (Refetching(c) /\ ReadStep(c)) =>
               /\ store' = store
               /\ fetch'[c].rd # "none"
               /\ fetch'[c].pc = "reset" => fetch'[c].rd = "err"
         /\ (Refetching(c) /\ InitStep(c)) =>
               /\ fetch[c].rd = "err"
               /\ store' # store => store' = Some(fetch[c].ep)]_vars

\* The refetch after a reset has returned the epoch of that reset, read from
\* the store without writing.
C13_Witness ==
    \E c \in Clients :
        /\ Refetching(c)
        /\ fetch[c].pc = "done" /\ fetch[c].rd = "some"
        /\ fetch[c].ret = Ok(fetch[c].ep)
        /\ fetch[c].ep = last_update[c] /\ fetch[c].ep > StartTime

\* C14: whenever the display of a client is Ready, its count is at least
\* its reference epoch, so count - last_update does not underflow.
C14_NoUnderflow ==
    \A c \in Clients :
        (resource[c] # None /\ resource[c][1].ok) =>
            count[c] >= resource[c][1].val

\* C15: a client has at most one active periodic callback at any time: each
\* run of the use_interval effect clears the handle of the previous run
\* before it installs the new one, so the only schedule left is the one the
\* effect returned last.
C15_OneInterval ==
    /\ Cardinality(intervals) <= 1
    /\ \A h \in intervals : prev_handle = Some(h.id)

\* The effect has rerun for a changed duration: one schedule is active, it
\* is not the first one created, and it runs at the current duration.
C15_Witness ==
    /\ handles_made >= 2
    /\ ~effect_dirty
    /\ \E h \in intervals : h.id = handles_made /\ h.millis = interval_millis
    /\ calls >= 1

\* C16: a reset by client b does not change client a's reference epoch or
\* display: while the on_click task of b runs (click, reset_count, resume),
\* the marker, the resource and the display of every other client stay as
\* they are.  The reference epoch of a changes only when a get_count of a
\* itself returns, and a get_count of a is sent only for a's own marker.
C16_OtherClientsUnaffected ==
    [][\A a \in Clients :
         /\ \A b \in Clients \ {a} :
               reset'[b] # reset[b] =>
                  /\ last_update'[a] = last_update[a]
                  /\ resource'[a] = resource[a]
                  /\ fetch'[a] = fetch[a]
                  /\ Display(a)' = Display(a)
         /\ resource'[a] # resource[a] =>
               fetch[a].pc = "done" /\ resource'[a] = Some(fetch[a].ret)
         /\ (fetch[a].pc # "sent" /\ fetch'[a].pc = "sent") =>
               fetch'[a].ep = last_update'[a]]_vars

\* Client b's reset_count has stored an epoch other than the reference epoch
\* client a is Ready with, and a has no fetch in flight.
C16_Witness ==
    \E a \in Clients, b \in Clients :
        /\ a # b
        /\ reset[b].pc = "done" /\ reset[b].ret.ok
        /\ store = Some(reset[b].ep)
        /\ Display(a).state = "Ready" /\ fetch[a].pc = "idle"
        /\ resource[a][1].val # reset[b].ep

\* C17: the ticker callback is enabled in every state of an open page,
\* also while a get_count or reset_count call is pending, and a tick
\* changes only count: last_update, the resource, the calls in flight and
\* the persisted epoch stay as they are.
C17_TickIndependent ==
    /\ [](\A c \in Clients : loaded[c] => ENABLED Tick(c))
    /\ [][\A c \in Clients :
            Tick(c) =>
               /\ count'[c] = now
               /\ last_update' = last_update /\ resource' = resource
               /\ fetch' = fetch /\ reset' = reset /\ store' = store]_vars

\* One client has ticked while its first get_count is in flight, another
\* while its reset_count is in flight.
C17_Witness ==
    \E c \in Clients, d \in Clients :
        /\ resource[c] = None /\ fetch[c].pc = "sent"
        /\ count[c] > last_update[c]
        /\ reset[d].pc = "sent" /\ count[d] > reset[d].ep

C19_CountMonotonic ==
    [][\A c \in Clients : loaded[c] => count'[c] >= count[c]]_vars

\* C20: the fields of every breakdown are bounded by the unit lengths:
\* months <= 12, days <= 29, hours <= 23, minutes <= 59, seconds <= 59, and
\* months = 12 occurs exactly when d mod 31536000 >= 31104000 (the last
\* five days of the 365-day year).
C20_FieldBounds ==
    et # None =>
        /\ et[1].years >= 0
        /\ et[1].months \in 0..12 /\ et[1].days \in 0..29
        /\ et[1].hours \in 0..23 /\ et[1].minutes \in 0..59
        /\ et[1].seconds \in 0..59
        /\ et[1].months = 12 <=> duration % 31536000 >= 31104000

\* A breakdown with twelve months was computed.
C20_Witness == et # None /\ et[1].months = 12 /\ et[1].days = 4

====
